---- MODULE Spec2Model ----
(***************************************************************************)
(* Model of my_python_utils.i_o.load_files:                                *)
(*   batch_file_loader     a generator, stepped by the consumer's next()   *)
(*   get_all_files         a listing of one directory, filtered            *)
(*   get_folder_structure  the recursive tree renderer                     *)
(* Strings are sequences of code points, so that sorting, lower-casing,    *)
(* splitext and '\n'.join are computed and not assumed.                    *)
(***************************************************************************)
EXTENDS Integers, Sequences, FiniteSets, TLC

VARIABLES
    files,          \* batch_file_loader: the list of paths
    batch_size,     \* batch_file_loader: the batch size
    gen,            \* the generator's position
    files_length,   \* local of the generator (line 61)
    num_batches,    \* local of the generator (line 62)
    i,              \* loop variable of line 65
    j,              \* index of the comprehension of line 67 (0-based)
    batch,          \* the list the comprehension of line 67 is building
    calls,          \* history: the 0-based indices open_file_func was called on
    yielded,        \* history: the batches handed to the consumer
    requests,       \* history: number of next() calls of the consumer
    raisedAt,       \* history: request number during which an error reached the consumer, 0 if none
    fs,             \* the file system below the directory the call is given: a set of nodes
    call            \* the call of get_all_files / get_folder_structure and its outcome

loaderVars == <<files, batch_size, gen, files_length, num_batches, i, j, batch,
                calls, yielded, requests, raisedAt>>

fsVars == <<fs, call>>

vars == <<loaderVars, fsVars>>

-----------------------------------------------------------------------------
(* Bounds of the model *)
MaxFiles == 5
MaxBatch == 3
MaxRequests == 7

NoCall == [pc |-> "none", fn |-> "", args |-> <<>>, result |-> <<>>]

Paths == {"p1", "p2"}

Min(a, b) == IF a < b THEN a ELSE b

Range(s) == {s[k] : k \in 1..Len(s)}

RECURSIVE Flatten(_)
Flatten(ss) == IF ss = <<>> THEN <<>> ELSE Head(ss) \o Flatten(Tail(ss))

SeqsUpTo(S, n) == UNION {[1..k -> S] : k \in 0..n}

-----------------------------------------------------------------------------
(* batch_file_loader *)

\* what open_file_func returns for a path when it does not raise
open_file_func(p) == <<"content", p>>

\* faulty variant: the count without the rounding up
NumBatchesNoRoundUp(n, b) == n \div b
\* line 62
NumBatches(n, b) == (n + b - 1) \div b

\* faulty variant: the range end one short
BatchEndShort(start, b, n) == Min(start + b - 1, n)
\* line 67: the upper end of the comprehension's range
BatchEnd(start, b, n) == Min(start + b, n)

\* faulty variant: the start index off by one
StartIndexOffByOne(k, b) == k * b + 1
\* line 66
StartIndex(k, b) == k * b

InitLoader ==
    /\ files \in SeqsUpTo(Paths, MaxFiles)
    /\ batch_size \in 0..MaxBatch
    /\ gen = "created"
    /\ files_length = 0
    /\ num_batches = 0
    /\ i = 0
    /\ j = 0
    /\ batch = <<>>
    /\ calls = <<>>
    /\ yielded = <<>>
    /\ requests = 0
    /\ raisedAt = 0
    /\ fs = {}
    /\ call = NoCall

\* The loop head of line 65 for loop value k, with n = files_length, nb = num_batches:
\* either the comprehension of line 67 starts, or the generator returns.
LoopHead(k, n, nb) ==
    IF k < nb
    THEN /\ i' = k
         /\ j' = StartIndex(k, batch_size)
         /\ batch' = <<>>
         /\ IF StartIndex(k, batch_size) < BatchEnd(StartIndex(k, batch_size), batch_size, n)
            THEN /\ gen' = "loading"
                 /\ yielded' = yielded
            ELSE /\ gen' = "suspended"
                 /\ yielded' = Append(yielded, <<>>)
    ELSE /\ gen' = "exhausted"
         /\ UNCHANGED <<i, j, batch, yielded>>

\* first next(): lines 61-62 run, then the loop head
FirstNext ==
    /\ gen = "created"
    /\ batch_size > 0
    /\ requests < MaxRequests
    /\ requests' = requests + 1
    /\ files_length' = Len(files)
    /\ num_batches' = NumBatches(Len(files), batch_size)
    /\ LoopHead(0, Len(files), NumBatches(Len(files), batch_size))
    /\ UNCHANGED <<files, batch_size, calls, raisedAt>>

\* first next() with batch_size = 0: line 62 raises ZeroDivisionError
FirstNextZeroDivision ==
    /\ gen = "created"
    /\ batch_size = 0
    /\ requests < MaxRequests
    /\ requests' = requests + 1
    /\ files_length' = Len(files)
    /\ gen' = "raised"
    /\ raisedAt' = requests + 1
    /\ UNCHANGED <<files, batch_size, num_batches, i, j, batch, calls, yielded>>

\* next() on a generator suspended at the yield of line 68: back to the loop head
ResumeNext ==
    /\ gen = "suspended"
    /\ requests < MaxRequests
    /\ requests' = requests + 1
    /\ LoopHead(i + 1, files_length, num_batches)
    /\ UNCHANGED <<files, batch_size, files_length, num_batches, calls, raisedAt>>

\* one element of the comprehension of line 67: open_file_func(files[j]) returns
LoadReturns ==
    /\ gen = "loading"
    /\ calls' = Append(calls, j)
    /\ batch' = Append(batch, open_file_func(files[j + 1]))
    /\ j' = j + 1
    /\ IF j + 1 < BatchEnd(StartIndex(i, batch_size), batch_size, files_length)
       THEN /\ gen' = "loading"
            /\ yielded' = yielded
       ELSE /\ gen' = "suspended"
            /\ yielded' = Append(yielded, Append(batch, open_file_func(files[j + 1])))
    /\ UNCHANGED <<files, batch_size, files_length, num_batches, i, requests, raisedAt>>

\* one element of the comprehension of line 67: open_file_func(files[j]) raises;
\* nothing catches it, the generator is finished and the consumer's next() raises
LoadRaises ==
    /\ gen = "loading"
    /\ calls' = Append(calls, j)
    /\ gen' = "raised"
    /\ raisedAt' = requests
    /\ UNCHANGED <<files, batch_size, files_length, num_batches, i, j, batch, yielded, requests>>

\* next() on a finished generator raises StopIteration and runs no code
NextOnFinished ==
    /\ gen \in {"exhausted", "raised"}
    /\ requests < MaxRequests
    /\ requests' = requests + 1
    /\ UNCHANGED <<files, batch_size, gen, files_length, num_batches, i, j, batch,
                   calls, yielded, raisedAt>>

NextLoader ==
    \/ FirstNext /\ UNCHANGED fsVars
    \/ FirstNextZeroDivision /\ UNCHANGED fsVars
    \/ ResumeNext /\ UNCHANGED fsVars
    \/ LoadReturns /\ UNCHANGED fsVars
    \/ LoadRaises /\ UNCHANGED fsVars
    \/ NextOnFinished /\ UNCHANGED fsVars

SpecLoader == InitLoader /\ [][NextLoader]_vars

-----------------------------------------------------------------------------
(* Properties of batch_file_loader *)

\* ceil(n / b) for b > 0, stated without the code's formula
CeilDiv(n, b) == CHOOSE q \in 0..n : q * b >= n /\ (q = 0 \/ (q - 1) * b < n)

\* 0-based indices first .. last-1 as a sequence
Indices(first, last) == [k \in 1..(IF last > first THEN last - first ELSE 0) |-> first + k - 1]

\* the consumer drained the generator and no call raised
Drained == gen = "exhausted" /\ batch_size > 0

\* open_file_func raised (and not line 62)
LoaderRaised == gen = "raised" /\ batch_size > 0

\* C1: with B > 0 and a loader that never fails, a fully consumed generator has
\* yielded exactly ceil(N/B) batches, their lengths sum to N, and every batch
\* but the last has length exactly B (N = 0: no batch).
C1_BatchCount ==
    Drained =>
        /\ Len(yielded) = CeilDiv(Len(files), batch_size)
        /\ Len(Flatten(yielded)) = Len(files)
        /\ \A k \in 1..(Len(yielded) - 1) : Len(yielded[k]) = batch_size
        /\ (Len(files) = 0 => yielded = <<>>)

C1_Witness ==
    /\ Drained
    /\ Len(files) % batch_size # 0
    /\ Len(yielded) >= 2
    /\ Len(yielded[Len(yielded)]) < batch_size

\* C2: creating the generator calls the loader on nothing; with B > 0, after k
\* requests the loader has been called only on indices < min(k*B, N); every
\* batch handed over had the loader called on each of its paths before.
C2_LazyPerBatch ==
    /\ gen = "created" => calls = <<>> /\ yielded = <<>>
    /\ batch_size > 0 =>
        /\ \A c \in Range(calls) : c < Min(requests * batch_size, Len(files))
        /\ Len(yielded) <= requests
        /\ \A k \in 1..Len(yielded) :
              \A idx \in Range(Indices((k - 1) * batch_size, Min(k * batch_size, Len(files)))) :
                  idx \in Range(calls)

C2_Witness ==
    /\ gen = "suspended"
    /\ batch_size >= 2
    /\ Len(yielded) = 1
    /\ requests = 1
    /\ Len(calls) = batch_size
    /\ Len(files) > batch_size

\* C3: with B > 0, when the loader raises on index jr the error reaches the
\* consumer during the request for batch floor(jr/B), the floor(jr/B) earlier
\* batches were delivered complete, the partial batch is never yielded, no index
\* above jr is ever loaded and later requests produce nothing more.
C3_LoaderErrorPropagates ==
    LoaderRaised =>
        LET jr == calls[Len(calls)] IN
        /\ calls = Indices(0, jr + 1)
        /\ raisedAt = (jr \div batch_size) + 1
        /\ Len(yielded) = jr \div batch_size
        /\ \A k \in 1..Len(yielded) :
              yielded[k] = [m \in 1..batch_size |-> open_file_func(files[(k - 1) * batch_size + m])]
        /\ Len(batch) = jr % batch_size

C3_Witness ==
    /\ LoaderRaised
    /\ requests > raisedAt
    /\ Len(yielded) >= 1
    /\ Len(batch) >= 1
    /\ Len(calls) < Len(files)

\* C10: with B > 0 and a loader that never fails, full consumption calls the
\* loader once per index in list order, batch k holds the results of indices
\* k*B .. min((k+1)*B, N) - 1, the batches concatenate to [f(p) for p in files],
\* and no yielded batch is ever empty.
C10_OrderPreserved ==
    /\ batch_size > 0 => \A k \in 1..Len(yielded) : yielded[k] # <<>>
    /\ Drained =>
        /\ calls = Indices(0, Len(files))
        /\ Flatten(yielded) = [k \in 1..Len(files) |-> open_file_func(files[k])]
        /\ \A k \in 1..Len(yielded) :
              yielded[k] = [m \in 1..(Min(k * batch_size, Len(files)) - (k - 1) * batch_size)
                               |-> open_file_func(files[(k - 1) * batch_size + m])]

C10_Witness ==
    /\ Drained
    /\ Len(yielded) >= 2
    /\ Len(files) % batch_size # 0
    /\ \E a, b \in 1..Len(files) : files[a] # files[b]
    /\ \E a, b \in 1..Len(files) : a # b /\ files[a] = files[b]

-----------------------------------------------------------------------------
(* Strings: sequences of code points *)

\* "/" (os.sep), "." (os.extsep), "\n"
Sep == <<47>>
Dot == <<46>>
Newline == <<10>>

\* entry names: ".t", "B.T", "a.t"
Names == { <<46, 116>>, <<66, 46, 84>>, <<97, 46, 116>> }

\* the current working directory "/w", and the directory arguments "." and "r"
Cwd == <<47, 119>>
PathArgs == { <<46>>, <<114>> }

\* str.lower on one code point and on a string (A-Z only: the names are ASCII)
LowerChar(c) == IF c >= 65 /\ c <= 90 THEN c + 32 ELSE c
\* faulty variant: a comparison that keeps the case
LowerIdentity(str) == str
Lower(str) == [k \in 1..Len(str) |-> LowerChar(str[k])]

\* str.rfind of a single code point: the last position holding c, 0 if none
RFind(str, c) ==
    IF \E k \in 1..Len(str) : str[k] = c
    THEN CHOOSE k \in 1..Len(str) : str[k] = c /\ \A m \in (k + 1)..Len(str) : str[m] # c
    ELSE 0

\* str < str of Python: lexicographic by code point
StrLess(a, b) ==
    \E k \in 1..(Len(b)) :
        /\ \A m \in 1..(k - 1) : m <= Len(a) /\ a[m] = b[m]
        /\ (k > Len(a) \/ (k <= Len(a) /\ a[k] < b[k]))
        /\ k - 1 <= Len(a)

\* sep.join(strs)
RECURSIVE Join(_, _)
Join(sep, strs) ==
    IF strs = <<>> THEN <<>>
    ELSE IF Len(strs) = 1 THEN strs[1]
    ELSE strs[1] \o sep \o Join(sep, Tail(strs))

\* str.split(sep) for a single code point sep
RECURSIVE Split(_, _)
Split(str, c) ==
    IF \E k \in 1..Len(str) : str[k] = c
    THEN LET k == CHOOSE k \in 1..Len(str) : str[k] = c /\ \A m \in 1..(k - 1) : str[m] # c
         IN <<SubSeq(str, 1, k - 1)>> \o Split(SubSeq(str, k + 1, Len(str)), c)
    ELSE <<str>>

-----------------------------------------------------------------------------
(* The file system below the directory argument.  A node is                *)
(* [path, dir, denied]: path is the sequence of names from the directory   *)
(* argument (<<>> is the argument itself), dir tells a directory from a    *)
(* regular file, denied that listing it raises PermissionError.            *)

\* the most entries below the directory argument
MaxNodes == 3

Node(p, d, x) == [path |-> p, dir |-> d, denied |-> x]

Exists(t, p) == \E n \in t : n.path = p
IsDir(t, p) == \E n \in t : n.path = p /\ n.dir
IsFile(t, p) == \E n \in t : n.path = p /\ ~n.dir
Denied(t, p) == \E n \in t : n.path = p /\ n.denied

\* names of the entries of directory p
Children(t, p) ==
    {n.path[Len(n.path)] :
        n \in {m \in t : Len(m.path) = Len(p) + 1 /\ SubSeq(m.path, 1, Len(p)) = p}}

InitFs ==
    /\ files = <<>>
    /\ batch_size = 0
    /\ gen = "none"
    /\ files_length = 0
    /\ num_batches = 0
    /\ i = 0
    /\ j = 0
    /\ batch = <<>>
    /\ calls = <<>>
    /\ yielded = <<>>
    /\ requests = 0
    /\ raisedAt = 0
    /\ fs \in { {}, {Node(<<>>, FALSE, FALSE)}, {Node(<<>>, TRUE, FALSE)} }
    /\ call = NoCall

\* the environment creates a file or a directory
CreateEntry ==
    /\ call.pc = "none"
    /\ Cardinality(fs) <= MaxNodes
    /\ \E parent \in {n \in fs : n.dir}, name \in Names, d \in BOOLEAN :
          /\ ~Exists(fs, Append(parent.path, name))
          /\ fs' = fs \cup {Node(Append(parent.path, name), d, FALSE)}
    /\ UNCHANGED <<call, loaderVars>>

\* the environment takes the read permission of a directory away
RevokeRead ==
    /\ call.pc = "none"
    /\ \E n \in {m \in fs : m.dir /\ ~m.denied} :
          fs' = (fs \ {n}) \cup {Node(n.path, TRUE, TRUE)}
    /\ UNCHANGED <<call, loaderVars>>

-----------------------------------------------------------------------------
(* get_folder_structure *)

\* "└── ", "├── ", "    ", "│   ", "Permission denied: "
ConnectorLast == <<9492, 9472, 9472, 32>>
ConnectorMid == <<9500, 9472, 9472, 32>>
IndentLast == <<32, 32, 32, 32>>
IndentMid == <<9474, 32, 32, 32>>
PermissionDeniedMsg == <<80, 101, 114, 109, 105, 115, 115, 105, 111, 110, 32,
                         100, 101, 110, 105, 101, 100, 58, 32>>

\* str(Path(arg) / p[1] / ... / p[n])
PathStr(arg, p) ==
    IF arg = Dot
    THEN (IF p = <<>> THEN Dot ELSE Join(Sep, p))
    ELSE Join(Sep, <<arg>> \o p)

\* Path(arg).resolve().name
ResolvedName(arg) == IF arg = Dot THEN Tail(Cwd) ELSE arg

\* sorted(names): ascending by code point
RECURSIVE Sorted(_)
Sorted(S) ==
    IF S = {} THEN <<>>
    ELSE LET least == CHOOSE x \in S : \A y \in S \ {x} : StrLess(x, y)
         IN <<least>> \o Sorted(S \ {least})

\* faulty variant: a listing that ignores bypass
EntriesNoBypass(t, p, bypass) == Sorted(Children(t, p))
\* line 94: the entries of p that are not bypassed, sorted
Entries(t, p, bypass) == Sorted({n \in Children(t, p) : n \notin bypass})

\* faulty variant: no entry taken for the last
IsLastNever(k, num_entries) == FALSE
\* line 101
IsLast(k, num_entries) == k = num_entries

\* faulty variant: a cutoff one level too deep
DescendOneTooDeep(max_depth, depth) == max_depth = -1 \/ depth <= max_depth
\* line 108
Descend(max_depth, depth) == max_depth = -1 \/ depth < max_depth

\* faulty variant: the message without the prefix; no line at all
DeniedLinesNoPrefix(prefix, pathstr) == << PermissionDeniedMsg \o pathstr >>
DeniedLinesSilent(prefix, pathstr) == << >>
\* lines 95-97: what the except branch returns
DeniedLines(prefix, pathstr) == << prefix \o PermissionDeniedMsg \o pathstr >>

\* lines 91-111
RECURSIVE _get_folder_structure(_, _, _, _, _, _, _)
_get_folder_structure(t, arg, p, max_depth, depth, prefix, bypass) ==
    IF Denied(t, p)
    THEN DeniedLines(prefix, PathStr(arg, p))
    ELSE LET entries == Entries(t, p, bypass)
             num_entries == Len(entries)
             Of(k) ==
                 LET entry == Append(p, entries[k])
                     is_last == IsLast(k, num_entries)
                     connector == IF is_last THEN ConnectorLast ELSE ConnectorMid
                     new_prefix == prefix \o (IF is_last THEN IndentLast ELSE IndentMid)
                     line == IF IsDir(t, entry)
                             THEN prefix \o connector \o entries[k] \o Sep
                             ELSE prefix \o connector \o entries[k]
                 IN  IF IsDir(t, entry) /\ Descend(max_depth, depth)
                     THEN <<line>> \o _get_folder_structure(t, arg, entry, max_depth, depth + 1,
                                                               new_prefix, bypass)
                     ELSE <<line>>
         IN Flatten([k \in 1..num_entries |-> Of(k)])

\* lines 136-140: the list of lines before the join
FolderLines(t, arg, max_depth, bypass) ==
    << ResolvedName(arg) \o Sep >>
        \o _get_folder_structure(t, arg, <<>>, max_depth, 0, <<>>, bypass)

\* lines 126-141, for an existing directory
get_folder_structure(t, arg, max_depth, bypass) ==
    Join(Newline, FolderLines(t, arg, max_depth, bypass))

MaxDepthArgs == {-1, 0, 1, 2}
BypassArgs == {{}} \cup {{n} : n \in Names} \cup {{<<46, 116>>, <<97, 46, 116>>}}

\* get_folder_structure(path, max_depth, bypass) on an existing directory
CallGetFolderStructure ==
    /\ call.pc = "none"
    /\ IsDir(fs, <<>>)
    /\ \E arg \in PathArgs, max_depth \in MaxDepthArgs, bypass \in BypassArgs :
          call' = [pc |-> "returned", fn |-> "get_folder_structure",
                   args |-> [path |-> arg, max_depth |-> max_depth, bypass |-> bypass],
                   result |-> get_folder_structure(fs, arg, max_depth, bypass)]
    /\ UNCHANGED <<fs, loaderVars>>

\* lines 128-131: the path does not exist or is no directory
CallGetFolderStructureRaises ==
    /\ call.pc = "none"
    /\ ~IsDir(fs, <<>>)
    /\ \E arg \in PathArgs, max_depth \in MaxDepthArgs, bypass \in BypassArgs :
          call' = [pc |-> "raised", fn |-> "get_folder_structure",
                   args |-> [path |-> arg, max_depth |-> max_depth, bypass |-> bypass],
                   result |-> "ValueError"]
    /\ UNCHANGED <<fs, loaderVars>>

NextTree ==
    \/ CreateEntry
    \/ RevokeRead
    \/ CallGetFolderStructure
    \/ CallGetFolderStructureRaises

SpecTree == InitFs /\ [][NextTree]_vars


-----------------------------------------------------------------------------
(* get_all_files *)

\* os.path.join(a, b) of posixpath
PathJoin(a, b) ==
    IF b # <<>> /\ b[1] = 47 THEN b
    ELSE IF a = <<>> \/ a[Len(a)] = 47 THEN a \o b
    ELSE a \o Sep \o b

\* the components of a path string that name something: no "" and no "."
\* (posixpath.normpath; no name of the model is "..")
NormComponents(str) == SelectSeq(Split(str, 47), LAMBDA c : c # <<>> /\ c # Dot)

\* os.path.abspath(p) for a relative p
AbsPath(p) == Sep \o Join(Sep, NormComponents(PathJoin(Cwd, p)))

\* the node a relative path string names, when the tree t is the directory arg
\* of the working directory; << <<>> >> names nothing
NodeOf(arg, str) ==
    LET comps == NormComponents(str)
    IN IF arg = Dot THEN comps
       ELSE IF comps # <<>> /\ comps[1] = arg THEN Tail(comps)
       ELSE << <<>> >>

\* os.path.isfile(str)
OsIsFile(t, arg, str) == IsFile(t, NodeOf(arg, str))

\* os.path.splitext(p)[1]: from the last dot of the last component, unless only
\* dots precede it there
Splitext(p) ==
    LET sepIndex == RFind(p, 47)
        dotIndex == RFind(p, 46)
    IN IF dotIndex > sepIndex /\ \E k \in (sepIndex + 1)..(dotIndex - 1) : p[k] # 46
       THEN SubSeq(p, dotIndex, Len(p))
       ELSE <<>>

\* lines 28-32: a single string becomes a list, then the set of lower-cased extensions
NormalizeExtension(extension) ==
    IF extension.kind = "str" THEN {Lower(extension.v)}
    ELSE {Lower(e) : e \in Range(extension.v)}

\* line 24: the test of the comprehension
KeepFile(t, arg, str) == OsIsFile(t, arg, str)

\* lines 21-41, listing being what os.listdir(path) returned
get_all_files(t, path, extension, abs_path, listing) ==
    LET joined == [k \in 1..Len(listing) |-> PathJoin(path, listing[k])]
        regular == SelectSeq(joined, LAMBDA f : KeepFile(t, path, f))
        matching == IF extension.kind = "none" THEN regular
                    ELSE SelectSeq(regular,
                                   LAMBDA f : Lower(Splitext(f)) \in NormalizeExtension(extension))
    IN IF abs_path THEN [k \in 1..Len(matching) |-> AbsPath(matching[k])] ELSE matching

\* the orders os.listdir may return the names of S in
Listings(S) == {l \in [1..Cardinality(S) -> S] : Range(l) = S}

\* ".t", ".T", "t", ""
ExtensionStrings == { <<46, 116>>, <<46, 84>>, <<116>>, <<>> }
ExtensionArgs ==
    {[kind |-> "none", v |-> <<>>]}
      \cup {[kind |-> "str", v |-> e] : e \in ExtensionStrings}
      \cup {[kind |-> "list", v |-> l] : l \in { <<>>, << <<46, 84>>, <<>> >>, << <<116>>, <<46, 116>> >> }}

\* get_all_files(path, extension=..., abs_path=...) on a listable directory
CallGetAllFiles ==
    /\ call.pc = "none"
    /\ IsDir(fs, <<>>)
    /\ ~Denied(fs, <<>>)
    /\ \E arg \in PathArgs, extension \in ExtensionArgs, abs_path \in BOOLEAN,
          listing \in Listings(Children(fs, <<>>)) :
          call' = [pc |-> "returned", fn |-> "get_all_files",
                   args |-> [path |-> arg, extension |-> extension, abs_path |-> abs_path],
                   result |-> get_all_files(fs, arg, extension, abs_path, listing)]
    /\ UNCHANGED <<fs, loaderVars>>

\* line 21: os.listdir raises (missing, not a directory, unreadable); nothing catches it
CallGetAllFilesRaises ==
    /\ call.pc = "none"
    /\ ~IsDir(fs, <<>>) \/ Denied(fs, <<>>)
    /\ \E arg \in PathArgs, extension \in ExtensionArgs, abs_path \in BOOLEAN :
          call' = [pc |-> "raised", fn |-> "get_all_files",
                   args |-> [path |-> arg, extension |-> extension, abs_path |-> abs_path],
                   result |-> "OSError"]
    /\ UNCHANGED <<fs, loaderVars>>

NextFiles ==
    \/ CreateEntry
    \/ RevokeRead
    \/ CallGetAllFiles
    \/ CallGetAllFilesRaises

SpecFiles == InitFs /\ [][NextFiles]_vars

-----------------------------------------------------------------------------
(* Properties of get_all_files *)

FilesReturned == call.pc = "returned" /\ call.fn = "get_all_files"

\* the extension of a name, leading dot included: what starts at its last dot,
\* if something other than dots stands before that dot
ExtensionOf(name) ==
    LET dots == {k \in 1..Len(name) :
                    /\ name[k] = 46
                    /\ \A m \in (k + 1)..Len(name) : name[m] # 46
                    /\ \E m \in 1..(k - 1) : name[m] # 46}
    IN IF dots = {} THEN <<>> ELSE SubSeq(name, CHOOSE k \in dots : TRUE, Len(name))

IsUpper(c) == c \in 65..90
IsLower(c) == c \in 97..122

\* equal but for the case of ASCII letters
SameIgnoringCase(a, b) ==
    /\ Len(a) = Len(b)
    /\ \A k \in 1..Len(a) :
          \/ a[k] = b[k]
          \/ IsUpper(a[k]) /\ b[k] = a[k] + 32
          \/ IsLower(a[k]) /\ b[k] = a[k] - 32

\* the extensions the caller asked for
Asked(extension) == IF extension.kind = "str" THEN {extension.v} ELSE Range(extension.v)

Wanted(extension, name) ==
    extension.kind = "none" \/ \E e \in Asked(extension) : SameIgnoringCase(ExtensionOf(name), e)

\* the names from the file system root down that a returned path string denotes
Denotes(str) ==
    LET parts == Split(str, 47)
        named == SelectSeq(parts, LAMBDA c : Len(c) > 0 /\ c # <<46>>)
    IN IF str # <<>> /\ str[1] = 47 THEN named ELSE <<Tail(Cwd)>> \o named

\* the names from the file system root down of the directory argument
DirectoryOf(arg) == IF arg = <<46>> THEN <<Tail(Cwd)>> ELSE <<Tail(Cwd), arg>>

\* C6: every returned path is a regular file directly inside the directory
\* whose extension, case ignored, is one of those asked for (any file when none
\* is asked for); every such file is returned, once; no directory is returned.
C6_FileEnumeration ==
    FilesReturned =>
        LET R == call.result
            E == call.args.extension
            D == DirectoryOf(call.args.path)
            sought == {n \in fs : Len(n.path) = 1 /\ ~n.dir /\ Wanted(E, n.path[1])}
        IN /\ \A k \in 1..Len(R) :
                 \E n \in sought : Denotes(R[k]) = D \o n.path
           /\ \A n \in sought : \E k \in 1..Len(R) : Denotes(R[k]) = D \o n.path
           /\ Len(R) = Cardinality(sought)
           /\ \A k \in 1..Len(R) : \A n \in fs : n.dir => Denotes(R[k]) # D \o n.path

C6_Witness ==
    /\ FilesReturned
    /\ call.args.extension = [kind |-> "str", v |-> <<46, 116>>]
    /\ call.args.abs_path
    /\ IsFile(fs, << <<66, 46, 84>> >>)
    /\ IsDir(fs, << <<97, 46, 116>> >>)
    /\ IsFile(fs, << <<46, 116>> >>)
    /\ Len(call.result) = 1

-----------------------------------------------------------------------------
(* Properties of get_folder_structure *)

TreeReturned == call.pc = "returned" /\ call.fn = "get_folder_structure"

\* the lines of the returned text
OutLines == Split(call.result, 10)

\* the depth an entry line shows: the number of four-column indents before its
\* connector; -1 for a line that is no entry line
EntryDepth(line) ==
    LET ds == {d \in 0..(Len(line) \div 4) :
                 /\ 4 * d + 4 <= Len(line)
                 /\ SubSeq(line, 4 * d + 1, 4 * d + 4) \in {ConnectorLast, ConnectorMid}
                 /\ \A e \in 0..(d - 1) :
                       SubSeq(line, 4 * e + 1, 4 * e + 4) \in {IndentLast, IndentMid}}
    IN IF ds = {} THEN -1 ELSE CHOOSE d \in ds : TRUE

\* the name an entry line shows, without the "/" of a directory
EntryName(line) ==
    LET rest == SubSeq(line, 4 * EntryDepth(line) + 5, Len(line))
    IN IF rest # <<>> /\ rest[Len(rest)] = 47 THEN SubSeq(rest, 1, Len(rest) - 1) ELSE rest

\* the path of names an entry line stands for: its name below the path of the
\* closest earlier line one level up
RECURSIVE LinePath(_, _)
LinePath(lines, k) ==
    LET d == EntryDepth(lines[k])
        ups == {m \in 1..(k - 1) : EntryDepth(lines[m]) = d - 1}
    IN IF d = 0 THEN <<EntryName(lines[k])>>
       ELSE IF ups = {} THEN << <<>>, EntryName(lines[k]) >>
       ELSE Append(LinePath(lines, CHOOSE m \in ups : \A o \in ups : o <= m), EntryName(lines[k]))

EntryLineIndices(lines) == {k \in 2..Len(lines) : EntryDepth(lines[k]) >= 0}

Ancestors(p) == {SubSeq(p, 1, k) : k \in 0..(Len(p) - 1)}

\* no name on the path is in the exclusion set
NotExcluded(p, X) == \A k \in 1..Len(p) : p[k] \notin X

\* the entries the traversal visits: not excluded, within the depth cutoff,
\* and below directories that could be listed
Visited(t, M, X) ==
    {n.path : n \in {m \in t : /\ m.path # <<>>
                               /\ NotExcluded(m.path, X)
                               /\ (M = -1 \/ Len(m.path) - 1 <= M)
                               /\ \A a \in Ancestors(m.path) : ~Denied(t, a)}}

\* the directories whose listing was attempted and refused
ListedDenied(t, M, X) ==
    {n.path : n \in {m \in t : /\ m.denied
                               /\ (m.path = <<>> \/
                                     (m.path \in Visited(t, M, X) /\ (M = -1 \/ Len(m.path) - 1 < M)))}}

\* C4: for M >= 0 no line stands for an entry at depth > M (the root's direct
\* entries are depth 0); with M = -1 every entry that is not excluded and that
\* lies below listable directories only is emitted, at every depth.
C4_DepthLimit ==
    TreeReturned =>
        LET M == call.args.max_depth
            X == call.args.bypass
            L == OutLines
        IN /\ \A k \in EntryLineIndices(L) :
                 /\ Exists(fs, LinePath(L, k))
                 /\ Len(LinePath(L, k)) - 1 = EntryDepth(L[k])
                 /\ M >= 0 => EntryDepth(L[k]) <= M
           /\ M = -1 =>
                 \A n \in fs :
                     (/\ n.path # <<>>
                      /\ NotExcluded(n.path, X)
                      /\ \A a \in Ancestors(n.path) : ~Denied(fs, a))
                     => \E k \in EntryLineIndices(L) : LinePath(L, k) = n.path

\* C4 as claimed: with M = -1 every non-excluded entry of the tree is emitted
C4_AsClaimed ==
    TreeReturned =>
        LET M == call.args.max_depth
            X == call.args.bypass
            L == OutLines
        IN /\ M >= 0 => \A k \in EntryLineIndices(L) : EntryDepth(L[k]) <= M
           /\ M = -1 =>
                 \A n \in fs :
                     (n.path # <<>> /\ NotExcluded(n.path, X))
                     => \E k \in EntryLineIndices(L) : LinePath(L, k) = n.path

C4_Witness ==
    /\ TreeReturned
    /\ call.args.max_depth = 1
    /\ call.args.bypass = {}
    /\ \E n \in fs : Len(n.path) = 3
    /\ \A n \in fs : ~n.denied
    /\ \E k \in EntryLineIndices(OutLines) : EntryDepth(OutLines[k]) = 1

\* C5: no entry whose name is in the exclusion set appears in the output, and
\* no descendant of such an entry appears either.
C5_Exclusion ==
    TreeReturned =>
        LET X == call.args.bypass
            L == OutLines
        IN \A k \in EntryLineIndices(L) :
              /\ EntryName(L[k]) \notin X
              /\ NotExcluded(LinePath(L, k), X)
              /\ Exists(fs, LinePath(L, k))

C5_Witness ==
    /\ TreeReturned
    /\ call.args.max_depth = -1
    /\ \E n \in fs : /\ Len(n.path) = 2
                     /\ n.path[1] \in call.args.bypass
                     /\ n.path[2] \notin call.args.bypass
                     /\ ~Denied(fs, <<n.path[1]>>)
    /\ ~Denied(fs, <<>>)
    /\ EntryLineIndices(OutLines) # {}

\* C7: (names without line breaks) the number of lines of the text is one for
\* the root line, plus one per entry visited, plus one per directory whose
\* listing was refused.
C7_LineCount ==
    TreeReturned =>
        Len(OutLines) = 1 + Cardinality(Visited(fs, call.args.max_depth, call.args.bypass))
                          + Cardinality(ListedDenied(fs, call.args.max_depth, call.args.bypass))

\* C7 as claimed: the number of lines is the number of entries visited
\* (with or without the root counted as an entry)
C7_AsClaimed ==
    TreeReturned =>
        \/ Len(OutLines) = Cardinality(Visited(fs, call.args.max_depth, call.args.bypass))
        \/ Len(OutLines) = 1 + Cardinality(Visited(fs, call.args.max_depth, call.args.bypass))

C7_Witness ==
    /\ TreeReturned
    /\ call.args.max_depth = 1
    /\ call.args.bypass # {}
    /\ Cardinality(Visited(fs, call.args.max_depth, call.args.bypass)) = 2
    /\ Cardinality(ListedDenied(fs, call.args.max_depth, call.args.bypass)) = 1
    /\ Cardinality(fs) = 4

\* a "Permission denied: ..." line: no entry line, and the message in it
IsDeniedLine(line) ==
    /\ EntryDepth(line) = -1
    /\ \E pos \in 1..Len(line) :
          /\ pos + Len(PermissionDeniedMsg) - 1 <= Len(line)
          /\ SubSeq(line, pos, pos + Len(PermissionDeniedMsg) - 1) = PermissionDeniedMsg

IsNoDeniedLine(line) == ~IsDeniedLine(line)

\* the tree with nothing below its unreadable directories, all of them readable
AsIfEmpty(t) ==
    {Node(n.path, n.dir, FALSE) : n \in {m \in t : \A a \in Ancestors(m.path) : ~Denied(t, a)}}

\* the prefix the children of an entry line get
ChildPrefix(line) ==
    LET d == EntryDepth(line)
    IN SubSeq(line, 1, 4 * d)
         \o (IF SubSeq(line, 4 * d + 1, 4 * d + 4) = ConnectorLast THEN IndentLast ELSE IndentMid)

\* the components str(path) has for the directory argument arg and the names p
PathComponents(arg, p) == IF arg = Dot /\ p # <<>> THEN p ELSE <<arg>> \o p

\* C8: an unreadable directory does not abort the traversal: one line
\* "Permission denied: <path>" stands in place of its children, directly below
\* the directory's own line and with the prefix its children would have, nothing
\* below the directory is emitted, and all other lines are exactly those of the
\* same tree with that directory empty.
C8_PermissionDenied ==
    TreeReturned =>
        LET M == call.args.max_depth
            X == call.args.bypass
            arg == call.args.path
            L == OutLines
            denied == {k \in 1..Len(L) : IsDeniedLine(L[k])}
        IN /\ SelectSeq(L, IsNoDeniedLine) = FolderLines(AsIfEmpty(fs), arg, M, X)
           /\ Cardinality(denied) = Cardinality(ListedDenied(fs, M, X))
           /\ \A k \in denied :
                 /\ k >= 2
                 /\ k - 1 \notin denied
                 /\ LET q == IF k = 2 THEN <<>> ELSE LinePath(L, k - 1)
                        pre == IF k = 2 THEN <<>> ELSE ChildPrefix(L[k - 1])
                    IN /\ q \in ListedDenied(fs, M, X)
                       /\ Len(L[k]) >= Len(pre) + Len(PermissionDeniedMsg)
                       /\ SubSeq(L[k], 1, Len(pre) + Len(PermissionDeniedMsg)) = pre \o PermissionDeniedMsg
                       /\ Split(SubSeq(L[k], Len(pre) + Len(PermissionDeniedMsg) + 1, Len(L[k])), 47)
                            = PathComponents(arg, q)

C8_Witness ==
    /\ TreeReturned
    /\ call.args.max_depth = -1
    /\ call.args.bypass = {}
    /\ \E n \in fs : /\ Len(n.path) = 1
                     /\ n.denied
                     /\ \E c \in fs : Len(c.path) = 2 /\ c.path[1] = n.path[1]
                     /\ \E o \in fs : Len(o.path) = 1 /\ StrLess(n.path[1], o.path[1])
    /\ Cardinality({k \in 1..Len(OutLines) : IsDeniedLine(OutLines[k])}) = 1
    /\ Len(OutLines) = 4

\* the entries p shares its directory with, p included
VisitedSiblings(t, M, X, p) ==
    {q \in Visited(t, M, X) : Len(q) = Len(p) /\ SubSeq(q, 1, Len(q) - 1) = SubSeq(p, 1, Len(p) - 1)}

\* p is the last of its directory's visited entries in name order
LastOfDirectory(t, M, X, p) ==
    \A q \in VisitedSiblings(t, M, X, p) : q = p \/ StrLess(q[Len(q)], p[Len(p)])

\* pre-order: a directory before what is below it, siblings by name
PathBefore(p, q) ==
    \/ Len(p) < Len(q) /\ SubSeq(q, 1, Len(p)) = p
    \/ \E k \in 1..Min(Len(p), Len(q)) :
          /\ SubSeq(p, 1, k - 1) = SubSeq(q, 1, k - 1)
          /\ StrLess(p[k], q[k])

RECURSIVE PreOrder(_)
PreOrder(S) ==
    IF S = {} THEN <<>>
    ELSE LET first == CHOOSE p \in S : \A q \in S \ {p} : PathBefore(p, q)
         IN <<first>> \o PreOrder(S \ {first})

\* the line the claim describes for the visited entry p
DescribedLine(t, M, X, p) ==
    Flatten([k \in 1..(Len(p) - 1) |->
                IF LastOfDirectory(t, M, X, SubSeq(p, 1, k)) THEN IndentLast ELSE IndentMid])
      \o (IF LastOfDirectory(t, M, X, p) THEN ConnectorLast ELSE ConnectorMid)
      \o p[Len(p)]
      \o (IF IsDir(t, p) THEN Sep ELSE <<>>)

\* C9: below the root line the entry lines are the visited entries in
\* depth-first pre-order, siblings sorted by name whether file or directory,
\* each with the prefix its ancestors give it (four spaces below a last entry,
\* "│" and three spaces below any other), the connector "└── " exactly on the
\* last entry of its directory and "├── " otherwise, and "/" after a directory.
C9_PreOrderRendering ==
    TreeReturned =>
        LET M == call.args.max_depth
            X == call.args.bypass
            order == PreOrder(Visited(fs, M, X))
        IN Tail(SelectSeq(OutLines, IsNoDeniedLine))
             = [k \in 1..Len(order) |-> DescribedLine(fs, M, X, order[k])]

C9_Witness ==
    /\ TreeReturned
    /\ call.args.bypass = {}
    /\ \A n \in fs : ~n.denied
    /\ \E d \in fs, f \in fs, c \in fs :
          /\ Len(d.path) = 1 /\ Len(f.path) = 1 /\ Len(c.path) = 2
          /\ d.dir /\ ~f.dir
          /\ StrLess(d.path[1], f.path[1])
          /\ c.path[1] = d.path[1]
    /\ Len(OutLines) = 4

====
